---- MODULE Spec2Model ----
(***************************************************************************)
(* Model of real_estate_numpy.py: the column-name resolver find_col, the   *)
(* loader safe_read and the linear run of main over the loaded table.      *)
(*                                                                         *)
(* A string is a sequence of one-character strings, so that strip(),       *)
(* lower(), == and `in` are computed character by character.               *)
(***************************************************************************)
EXTENDS Integers, Sequences, FiniteSets, TLC

(***************************************************************************)
(* Python str operations used by find_col.                                 *)
(***************************************************************************)
Upper == <<"A","B","C","D","E","F","G","H","I","J","K","L","M",
           "N","O","P","Q","R","S","T","U","V","W","X","Y","Z">>

Lower == <<"a","b","c","d","e","f","g","h","i","j","k","l","m",
           "n","o","p","q","r","s","t","u","v","w","x","y","z">>

Whitespace == {" ", "\t", "\n", "\r"}

\* The return value None; no string equals it (its one element is no character).
None == <<"None">>

\* upper-case letter -> its lower-case letter
ToLower ==
    [c \in {Upper[i] : i \in DOMAIN Upper} |->
        Lower[CHOOSE i \in DOMAIN Upper : Upper[i] = c]]

lower_char(c) == IF c \in DOMAIN ToLower THEN ToLower[c] ELSE c

\* str.lower()
lower(s) == [i \in DOMAIN s |-> lower_char(s[i])]

RECURSIVE lstrip(_)
lstrip(s) ==
    IF s = <<>> THEN s
    ELSE IF Head(s) \in Whitespace THEN lstrip(Tail(s)) ELSE s

RECURSIVE rstrip(_)
rstrip(s) ==
    IF s = <<>> THEN s
    ELSE IF s[Len(s)] \in Whitespace THEN rstrip(SubSeq(s, 1, Len(s) - 1)) ELSE s

\* str.strip()
strip(s) == rstrip(lstrip(s))

\* sub in s   (Python substring test; the empty string is in every string)
str_in(sub, s) ==
    \E k \in 0..(Len(s) - Len(sub)) : SubSeq(s, k + 1, k + Len(sub)) = sub

\* Python truthiness of a find_col result: None and "" are false.
Truthy(c) == c # None /\ c # <<>>

(***************************************************************************)
(* find_col(df, want): lines 10-19.  columns is df.columns.                *)
(***************************************************************************)
\* first loop (lines 13-15): scan from position i, return the first exact match
RECURSIVE exact_scan(_, _, _)
exact_scan(columns, want_norm, i) ==
    IF i > Len(columns) THEN None
    ELSE IF lower(strip(columns[i])) = want_norm THEN columns[i]
    ELSE exact_scan(columns, want_norm, i + 1)

\* second loop (lines 16-18): scan from position i, return the first containing header
\* the second loop with the operands of `in` exchanged
RECURSIVE substring_scan_reversed(_, _, _)
substring_scan_reversed(columns, want_norm, i) ==
    IF i > Len(columns) THEN None
    ELSE IF str_in(lower(strip(columns[i])), want_norm) THEN columns[i]
    ELSE substring_scan_reversed(columns, want_norm, i + 1)

RECURSIVE substring_scan(_, _, _)
substring_scan(columns, want_norm, i) ==
    IF i > Len(columns) THEN None
    ELSE IF str_in(want_norm, lower(strip(columns[i]))) THEN columns[i]
    ELSE substring_scan(columns, want_norm, i + 1)

\* find_col with the two loops in the other order
find_col_substring_first(columns, want) ==
    LET want_norm == lower(strip(want))
        c1 == substring_scan(columns, want_norm, 1)
    IN  IF c1 # None THEN c1
        ELSE exact_scan(columns, want_norm, 1)

find_col(columns, want) ==
    LET want_norm == lower(strip(want))
        c1 == exact_scan(columns, want_norm, 1)
    IN  IF c1 # None THEN c1
        ELSE substring_scan(columns, want_norm, 1)

(***************************************************************************)
(* Header spellings.                                                       *)
(***************************************************************************)
brokered_by == <<"b","r","o","k","e","r","e","d","_","b","y">>
price       == <<"p","r","i","c","e">>
acre_lot    == <<"a","c","r","e","_","l","o","t">>
city        == <<"c","i","t","y">>
house_size  == <<"h","o","u","s","e","_","s","i","z","e">>
street      == <<"s","t","r","e","e","t">>
zip_code    == <<"z","i","p","_","c","o","d","e">>
state       == <<"s","t","a","t","e">>

\* the logical names main asks for, in the order of the loop of line 50
REQ == <<brokered_by, price, acre_lot, city, house_size, street, zip_code, state>>

state_Changed == <<"s","t","a","t","e","_","C","h","a","n","g","e","d">>

\* inexact spellings a header row may carry
Price_sp          == <<"P","r","i","c","e"," ">>
town              == <<"t","o","w","n">>
real_estate_price == <<"r","e","a","l","_","e","s","t","a","t","e","_","p","r","i","c","e">>
street_price      == <<"s","t","r","e","e","t","_","p","r","i","c","e">>

(***************************************************************************)
(* Bounds of the model.                                                    *)
(***************************************************************************)
MaxRows    == 15   \* data rows of the loaded table: 0..MaxRows
MaxCols    == 2    \* columns of a table built from HeaderPool
MaxChars   == 4    \* characters of a header row given to find_col alone, in all
MaxHeaders == 2    \* headers of a header row given to find_col alone
MaxWant    == 2    \* characters of a wanted name given to find_col alone

HeaderPool == {Price_sp, city, state, town, real_estate_price, street_price}

\* sequences of pairwise distinct headers (read_csv de-duplicates header names)
DistinctSeqs(S, n) ==
    UNION {{h \in [1..k -> S] : \A i, j \in 1..k : i # j => h[i] # h[j]} : k \in 1..n}

Range(f) == {f[i] : i \in DOMAIN f}

\* header rows: up to MaxCols headers of the pool, or the first k logical names
HeaderRowsOfFile ==
    DistinctSeqs(HeaderPool, MaxCols) \cup {SubSeq(REQ, 1, k) : k \in 1..Len(REQ)}

\* what pd.read_csv can return: the header row, the columns parsed as numbers
\* (none, or the first one) and the number of data rows
LoadedTables ==
    {[readable |-> TRUE, columns |-> h, numeric |-> IF b THEN {h[1]} ELSE {}, nrows |-> n] :
        h \in HeaderRowsOfFile, b \in BOOLEAN, n \in 0..MaxRows}

Unreadable == [readable |-> FALSE, columns |-> <<>>, numeric |-> {}, nrows |-> 0]

Files == LoadedTables \cup {Unreadable}

\* strings and header sequences for find_col on its own
Chars == {" ", "a", "A"}

Strings(n) == UNION {[1..k -> Chars] : k \in 0..n}

\* the header rows of exactly k headers and at most n characters in all
RECURSIVE HeaderRows(_, _)
HeaderRows(k, n) ==
    IF k = 0 THEN {<<>>}
    ELSE UNION {{<<h>> \o r : r \in HeaderRows(k - 1, n - Len(h))} : h \in Strings(n)}

HeaderSeqs == UNION {HeaderRows(k, MaxChars) : k \in 0..MaxHeaders}

(***************************************************************************)
(* State.                                                                  *)
(***************************************************************************)
VARIABLES
    file,        \* what is at CSV (line 8): a table or nothing readable
    pc,          \* position of main
    columns,     \* df.columns
    numeric,     \* columns of df with a numeric dtype
    index,       \* df.index, the row labels in row order
    cols_req,    \* cols_req, in the order of REQ (line 49)
    new_index,   \* new_index of Task 25
    new_row,     \* new_row of Task 25: column -> kind of value
    text_in,     \* numeric columns of df into which a text value has been stored
    log,         \* per step: what it did
    missing,     \* column names a step asked pandas for that df did not have
    stderr,      \* diagnostic of SystemExit
    fc_columns,  \* find_col on its own: df.columns
    fc_want,     \* find_col on its own: want
    fc_results   \* find_col on its own: value returned by each call so far

vars == <<file, pc, columns, numeric, index, cols_req, new_index, new_row,
          text_in, log, missing, stderr, fc_columns, fc_want, fc_results>>

main_vars == <<file, pc, columns, numeric, index, cols_req, new_index, new_row,
               text_in, log, missing, stderr>>

fc_vars == <<fc_columns, fc_want, fc_results>>

Steps == {"task1", "resolve", "coerce"} \cup
         {"task2", "task3", "task4", "task5", "task6", "task7", "task8", "task9",
          "task10", "task11", "task12", "task13", "task14", "task15", "task16",
          "task17", "task18", "task19", "task20", "task21", "task22", "task23",
          "task24", "task25", "task26", "task27", "task28", "task29", "task30",
          "task31", "task32", "task33", "task34", "task35", "task36", "finish"}

Order == <<"task1", "resolve", "coerce",
           "task2", "task3", "task4", "task5", "task6", "task7", "task8", "task9",
           "task10", "task11", "task12", "task13", "task14", "task15", "task16",
           "task17", "task18", "task19", "task20", "task21", "task22", "task23",
           "task24", "task25", "task26", "task27", "task28", "task29", "task30",
           "task31", "task32", "task33", "task34", "task35", "task36", "finish",
           "done">>

\* the statement after step s in main
After(s) == Order[(CHOOSE i \in DOMAIN Order : Order[i] = s) + 1]

NotRun == [status |-> "-", notice |-> FALSE, used |-> {}, rows |-> {}, cols |-> {}]

InitMainVars ==
    /\ pc = "safe_read"
    /\ columns = <<>>
    /\ numeric = {}
    /\ index = <<>>
    /\ cols_req = <<>>
    /\ new_index = -1
    /\ new_row = [c \in {} |-> "nan"]
    /\ text_in = {}
    /\ log = [s \in Steps |-> NotRun]
    /\ missing = {}
    /\ stderr = ""

Init ==
    /\ file \in Files
    /\ InitMainVars
    /\ fc_columns = <<>>
    /\ fc_want = <<>>
    /\ fc_results = <<>>

(***************************************************************************)
(* safe_read(csv_path): lines 21-27, called at line 40.                    *)
(***************************************************************************)
\* a safe_read that prints the failure and returns an empty table
safe_read_continue ==
    /\ pc = "safe_read"
    /\ columns' = file.columns
    /\ numeric' = file.numeric
    /\ index' = [i \in 1..file.nrows |-> i - 1]
    /\ pc' = "task1"
    /\ stderr' = IF file.readable THEN stderr ELSE "Failed to load CSV"
    /\ UNCHANGED <<file, cols_req, new_index, new_row, text_in, log, missing, fc_vars>>

safe_read ==
    /\ pc = "safe_read"
    /\ IF file.readable
       THEN /\ columns' = file.columns
            /\ numeric' = file.numeric
            /\ index' = [i \in 1..file.nrows |-> i - 1]
            /\ pc' = "task1"
            /\ UNCHANGED stderr
       ELSE /\ stderr' = "Failed to load CSV"
            /\ pc' = "exit"
            /\ UNCHANGED <<columns, numeric, index>>
    /\ UNCHANGED <<file, cols_req, new_index, new_row, text_in, log, missing, fc_vars>>

(***************************************************************************)
(* main: lines 39-400.  One action per task; each records in log what it   *)
(* printed or selected, and an exception no handler catches ends the run.  *)
(***************************************************************************)
\* cols_req.get(name)
get(name) ==
    LET i == CHOOSE k \in DOMAIN REQ : REQ[k] = name
    IN  IF i <= Len(cols_req) THEN cols_req[i] ELSE None

city_col   == get(city)     \* line 113
street_col == get(street)   \* line 114
price_col  == get(price)    \* line 164

\* [c for c in names if c]
Found(names) == {c \in names : Truthy(c)}

nrows == Len(index)         \* len(df)
ncols == Len(columns)       \* df.shape[1]
labels == Range(index)      \* the labels of df.index

\* the step finished: it printed a notice, or read `used` / selected rows and cols
Finish(s, notice, used, rows, cols) ==
    /\ log' = [log EXCEPT ![s] = [status |-> "ok", notice |-> notice,
                                  used |-> used, rows |-> rows, cols |-> cols]]
    /\ pc' = After(s)

\* the step raised an exception that main does not catch
Raise(s, used) ==
    /\ log' = [log EXCEPT ![s] = [status |-> "raised", notice |-> FALSE,
                                  used |-> used, rows |-> {}, cols |-> {}]]
    /\ pc' = "aborted"

\* a step that only prints leaves the table as it is
TableUnchanged ==
    UNCHANGED <<file, columns, numeric, index, cols_req, new_index, new_row,
                text_in, missing, stderr, fc_vars>>

\* lines 42-46
Task1 ==
    /\ pc = "task1"
    /\ Finish("task1", FALSE, {}, {}, {})
    /\ TableUnchanged

\* lines 48-57: one iteration of the loop of line 50; the mapping is printed after the last
ResolveColumns ==
    /\ pc = "resolve"
    /\ Len(cols_req) < Len(REQ)
    /\ cols_req' = Append(cols_req, find_col(columns, REQ[Len(cols_req) + 1]))
    /\ IF Len(cols_req') = Len(REQ)
       THEN Finish("resolve", FALSE, {}, {}, {})
       ELSE UNCHANGED <<pc, log>>
    /\ UNCHANGED <<file, columns, numeric, index, new_index, new_row, text_in,
                   missing, stderr, fc_vars>>

\* lines 59-63: pd.to_numeric(..., errors="coerce") of the resolved numeric columns
Coerce ==
    /\ pc = "coerce"
    /\ LET cols == Found({get(price), get(house_size), get(acre_lot)})
       IN  /\ numeric' = numeric \cup cols
           /\ Finish("coerce", FALSE, cols, {}, {})
    /\ UNCHANGED <<file, columns, index, cols_req, new_index, new_row, text_in,
                   missing, stderr, fc_vars>>

\* lines 65-79: df.describe(include=[np.number]) has nothing to concatenate,
\* and raises ValueError, when no column is numeric
Task2 ==
    /\ pc = "task2"
    /\ IF numeric = {}
       THEN Raise("task2", {})
       ELSE Finish("task2", FALSE, {}, {}, {})
    /\ TableUnchanged

\* lines 81-101
Task3 ==
    /\ pc = "task3"
    /\ LET cols_subset == Found({get(city), get(price), get(house_size)})
       IN  Finish("task3", FALSE, cols_subset, {}, {})
    /\ TableUnchanged

\* lines 103-105
Task4 ==
    /\ pc = "task4"
    /\ Finish("task4", FALSE, {}, {}, {})
    /\ TableUnchanged

\* lines 107-109
Task5 ==
    /\ pc = "task5"
    /\ Finish("task5", FALSE, {}, {}, {})
    /\ TableUnchanged

\* lines 111-124
Task6 ==
    /\ pc = "task6"
    /\ Finish("task6", ~Truthy(city_col) \/ ~Truthy(street_col),
              Found({city_col, street_col}), {}, {})
    /\ TableUnchanged

\* lines 126-132
Task7 ==
    /\ pc = "task7"
    /\ LET multi_cols == Found({street_col, city_col})
       IN  Finish("task7", multi_cols = {}, multi_cols, {}, {})
    /\ TableUnchanged

\* lines 134-140
Task8 ==
    /\ pc = "task8"
    /\ IF 5 \in labels
       THEN Finish("task8", FALSE, {}, {5}, {})
       ELSE Finish("task8", TRUE, {}, {}, {})
    /\ TableUnchanged

\* lines 142-148
Task9 ==
    /\ pc = "task9"
    /\ LET wanted == {i \in {3, 5, 7} : i \in labels}
       IN  Finish("task9", wanted = {}, {}, wanted, {})
    /\ TableUnchanged

\* lines 150-160: a label slice of the sorted default index takes what lies in 3..9
Task10 ==
    /\ pc = "task10"
    /\ Finish("task10", FALSE, {}, {l \in labels : 3 <= l /\ l <= 9}, {})
    /\ TableUnchanged

\* lines 162-170
Task11 ==
    /\ pc = "task11"
    /\ IF Truthy(price_col)
       THEN Finish("task11", FALSE, {price_col}, {}, {})
       ELSE Finish("task11", TRUE, {}, {}, {})
    /\ TableUnchanged

\* lines 172-179
Task12 ==
    /\ pc = "task12"
    /\ IF Truthy(city_col)
       THEN Finish("task12", FALSE, {city_col}, {}, {})
       ELSE Finish("task12", TRUE, {}, {}, {})
    /\ TableUnchanged

\* lines 181-187
Task13 ==
    /\ pc = "task13"
    /\ IF Truthy(city_col) /\ Truthy(price_col)
       THEN Finish("task13", FALSE, {city_col, price_col}, {}, {})
       ELSE Finish("task13", TRUE, {}, {}, {})
    /\ TableUnchanged

\* lines 189-198
Task14 ==
    /\ pc = "task14"
    /\ LET cols_interest ==
               Found({get(city), get(price), get(street), get(zip_code), get(acre_lot)})
       IN  IF 7 \in labels /\ cols_interest # {}
           THEN Finish("task14", FALSE, cols_interest, {7}, {})
           ELSE Finish("task14", TRUE, {}, {}, {})
    /\ TableUnchanged

\* lines 200-208
Task15 ==
    /\ pc = "task15"
    /\ IF Truthy(city_col) /\ Truthy(get(zip_code))
       THEN Finish("task15", FALSE, {city_col, get(zip_code)}, {}, {})
       ELSE Finish("task15", TRUE, {}, {}, {})
    /\ TableUnchanged

\* lines 210-216
Task16 ==
    /\ pc = "task16"
    /\ IF Truthy(city_col) /\ Truthy(get(zip_code))
       THEN Finish("task16", FALSE, {city_col, get(zip_code)}, {}, {})
       ELSE Finish("task16", TRUE, {}, {}, {})
    /\ TableUnchanged

\* lines 218-225: df.iloc[4] raises IndexError below 5 rows; the except prints
Task17 ==
    /\ pc = "task17"
    /\ IF 4 < nrows
       THEN Finish("task17", FALSE, {}, {4}, {})
       ELSE Finish("task17", TRUE, {}, {}, {})
    /\ TableUnchanged

\* Task 18 with pos <= len(df): df.iloc raises IndexError at position len(df)
Task18_off_by_one ==
    /\ pc = "task18"
    /\ LET idxs == {pos \in {6, 8, 14} : pos <= nrows}
       IN  IF \E pos \in idxs : pos >= nrows
           THEN Raise("task18", {})
           ELSE Finish("task18", idxs = {}, {}, idxs, {})
    /\ TableUnchanged

\* lines 227-236
Task18 ==
    /\ pc = "task18"
    /\ LET idxs == {pos \in {6, 8, 14} : pos < nrows}
       IN  Finish("task18", idxs = {}, {}, idxs, {})
    /\ TableUnchanged

\* lines 238-243: a position slice takes the positions that exist
Task19 ==
    /\ pc = "task19"
    /\ Finish("task19", FALSE, {}, {p \in 4..12 : p < nrows}, {})
    /\ TableUnchanged

\* lines 245-251: df.iloc[:, 2] raises IndexError below 3 columns; the except prints
Task20 ==
    /\ pc = "task20"
    /\ IF 2 < ncols
       THEN Finish("task20", FALSE, {}, {}, {2})
       ELSE Finish("task20", TRUE, {}, {}, {})
    /\ TableUnchanged

\* lines 253-263
Task21 ==
    /\ pc = "task21"
    /\ LET cols_existing == {p \in {1, 3, 6} : p < ncols}
       IN  Finish("task21", cols_existing = {}, {}, {}, cols_existing)
    /\ TableUnchanged

\* lines 265-270
Task22 ==
    /\ pc = "task22"
    /\ Finish("task22", FALSE, {}, {}, {p \in 1..4 : p < ncols})
    /\ TableUnchanged

\* lines 272-282
Task23 ==
    /\ pc = "task23"
    /\ LET rows_pos == {p \in {6, 8, 14} : p < nrows}
           cols_pos == {p \in {1, 3} : p < ncols}
       IN  IF rows_pos # {} /\ cols_pos # {}
           THEN Finish("task23", FALSE, {}, rows_pos, cols_pos)
           ELSE Finish("task23", TRUE, {}, {}, {})
    /\ TableUnchanged

\* lines 284-289
Task24 ==
    /\ pc = "task24"
    /\ Finish("task24", FALSE, {}, {p \in 1..5 : p < nrows}, {p \in 1..3 : p < ncols})
    /\ TableUnchanged

Max(S) == CHOOSE x \in S : \A y \in S : y <= x

\* the step finished after printing the duplicate-index warning of line 355
Warned(s, rows) ==
    /\ log' = [log EXCEPT ![s] = [status |-> "warned", notice |-> FALSE,
                                  used |-> {}, rows |-> rows, cols |-> {}]]
    /\ pc' = After(s)

\* Task 25 with new_index = df.index.max()
Task25_no_increment ==
    /\ pc = "task25"
    /\ new_index' = IF nrows > 0 THEN Max(labels) ELSE 0
    /\ new_row' = [c \in Range(columns) |->
                      IF Truthy(get(street)) /\ c = get(street) THEN "text"
                      ELSE IF Truthy(get(price)) /\ c = get(price) THEN "number"
                      ELSE IF Truthy(get(city)) /\ c = get(city) THEN "text"
                      ELSE "nan"]
    /\ index' = Append(index, new_index')
    /\ text_in' = {c \in numeric : new_row'[c] = "text"}
    /\ numeric' = numeric \ text_in'
    /\ Finish("task25", FALSE, Found({get(city), get(price), get(street)}),
              {new_index'}, {})
    /\ UNCHANGED <<file, columns, cols_req, missing, stderr, fc_vars>>

\* lines 291-302: the new row is NaN except for city, price and street, set in
\* that order; a text value stored in a numeric column makes the column object
Task25 ==
    /\ pc = "task25"
    /\ new_index' = IF nrows > 0 THEN Max(labels) + 1 ELSE 0
    /\ new_row' = [c \in Range(columns) |->
                      IF Truthy(get(street)) /\ c = get(street) THEN "text"
                      ELSE IF Truthy(get(price)) /\ c = get(price) THEN "number"
                      ELSE IF Truthy(get(city)) /\ c = get(city) THEN "text"
                      ELSE "nan"]
    /\ index' = Append(index, new_index')
    /\ text_in' = {c \in numeric : new_row'[c] = "text"}
    /\ numeric' = numeric \ text_in'
    /\ Finish("task25", FALSE, Found({get(city), get(price), get(street)}),
              {new_index'}, {})
    /\ UNCHANGED <<file, columns, cols_req, missing, stderr, fc_vars>>

\* df.drop(index=...): the rows with these labels go; a column whose only text
\* value went with them holds numbers only
drop_rows(dropped) ==
    /\ index' = SelectSeq(index, LAMBDA l : l \notin dropped)
    /\ text_in' = IF new_index \in dropped THEN {} ELSE text_in

\* lines 304-310
Task26 ==
    /\ pc = "task26"
    /\ IF 2 \in labels
       THEN /\ drop_rows({2})
            /\ Finish("task26", FALSE, {}, {2}, {})
       ELSE /\ UNCHANGED <<index, text_in>>
            /\ Finish("task26", TRUE, {}, {}, {})
    /\ UNCHANGED <<file, columns, numeric, cols_req, new_index, new_row, missing,
                   stderr, fc_vars>>

\* lines 312-319
Task27 ==
    /\ pc = "task27"
    /\ LET labels_to_drop == {lbl \in 4..7 : lbl \in labels}
       IN  IF labels_to_drop # {}
           THEN /\ drop_rows(labels_to_drop)
                /\ Finish("task27", FALSE, {}, labels_to_drop, {})
           ELSE /\ UNCHANGED <<index, text_in>>
                /\ Finish("task27", TRUE, {}, {}, {})
    /\ UNCHANGED <<file, columns, numeric, cols_req, new_index, new_row, missing,
                   stderr, fc_vars>>

\* df.drop(columns=...)
drop_columns(dropped) ==
    /\ columns' = SelectSeq(columns, LAMBDA c : c \notin dropped)
    /\ numeric' = numeric \ dropped
    /\ text_in' = text_in \ dropped

\* lines 321-328
Task28 ==
    /\ pc = "task28"
    /\ LET hs_col == get(house_size)
       IN  IF Truthy(hs_col) /\ hs_col \in Range(columns)
           THEN /\ drop_columns({hs_col})
                /\ Finish("task28", FALSE, {hs_col}, {}, {})
           ELSE /\ UNCHANGED <<columns, numeric, text_in>>
                /\ Finish("task28", TRUE, {}, {}, {})
    /\ UNCHANGED <<file, index, cols_req, new_index, new_row, missing, stderr, fc_vars>>

\* Task 29 without lines 335-336: only house_size is dropped
Task29_house_size_only ==
    /\ pc = "task29"
    /\ LET cols_to_drop ==
               {c \in {get(house_size)} : Truthy(c) /\ c \in Range(columns)}
       IN  IF cols_to_drop # {}
           THEN /\ drop_columns(cols_to_drop)
                /\ Finish("task29", FALSE, cols_to_drop, {}, {})
           ELSE /\ UNCHANGED <<columns, numeric, text_in>>
                /\ Finish("task29", TRUE, {}, {}, {})
    /\ UNCHANGED <<file, index, cols_req, new_index, new_row, missing, stderr, fc_vars>>

\* lines 330-341
Task29 ==
    /\ pc = "task29"
    /\ LET cols_to_drop ==
               {c \in {get(house_size), get(state)} : Truthy(c) /\ c \in Range(columns)}
       IN  IF cols_to_drop # {}
           THEN /\ drop_columns(cols_to_drop)
                /\ Finish("task29", FALSE, cols_to_drop, {}, {})
           ELSE /\ UNCHANGED <<columns, numeric, text_in>>
                /\ Finish("task29", TRUE, {}, {}, {})
    /\ UNCHANGED <<file, index, cols_req, new_index, new_row, missing, stderr, fc_vars>>

\* df.rename(columns={old: new})
rename_column(old, new) ==
    /\ columns' = [i \in DOMAIN columns |-> IF columns[i] = old THEN new ELSE columns[i]]
    /\ numeric' = IF old \in numeric THEN (numeric \ {old}) \cup {new} ELSE numeric
    /\ text_in' = IF old \in text_in THEN (text_in \ {old}) \cup {new} ELSE text_in

\* lines 343-349
Task30 ==
    /\ pc = "task30"
    /\ IF Truthy(get(state)) /\ get(state) \in Range(columns)
       THEN /\ rename_column(get(state), state_Changed)
            /\ Finish("task30", FALSE, {get(state)}, {}, {})
       ELSE /\ UNCHANGED <<columns, numeric, text_in>>
            /\ Finish("task30", TRUE, {}, {}, {})
    /\ UNCHANGED <<file, index, cols_req, new_index, new_row, missing, stderr, fc_vars>>

\* lines 351-359: df.rename(index={3: 5})
Task31 ==
    /\ pc = "task31"
    /\ IF 3 \in labels
       THEN /\ index' = [i \in DOMAIN index |-> IF index[i] = 3 THEN 5 ELSE index[i]]
            /\ IF 5 \in labels
               THEN Warned("task31", {3})
               ELSE Finish("task31", FALSE, {}, {3}, {})
       ELSE /\ UNCHANGED index
            /\ Finish("task31", TRUE, {}, {}, {})
    /\ UNCHANGED <<file, columns, numeric, cols_req, new_index, new_row, text_in,
                   missing, stderr, fc_vars>>

\* a read of columns by name: pandas raises (KeyError, UndefinedVariableError)
\* for a name that is no column of df
Absent(names) == names \ Range(columns)

\* lines 361-367: the query compares every value of the price column with a number
Task32 ==
    /\ pc = "task32"
    /\ IF Truthy(price_col) /\ Truthy(city_col)
       THEN IF Absent({price_col, city_col}) # {}
            THEN /\ missing' = Absent({price_col, city_col})
                 /\ Raise("task32", {price_col, city_col})
            ELSE /\ UNCHANGED missing
                 /\ IF price_col \in text_in
                    THEN Raise("task32", {price_col, city_col})
                    ELSE Finish("task32", FALSE, {price_col, city_col}, {}, {})
       ELSE /\ UNCHANGED missing
            /\ Finish("task32", TRUE, {}, {}, {})
    /\ UNCHANGED <<file, columns, numeric, index, cols_req, new_index, new_row,
                   text_in, stderr, fc_vars>>

\* Task 33 without the test of line 371: sorting by None raises KeyError
Task33_unguarded ==
    /\ pc = "task33"
    /\ IF Absent({price_col}) # {}
       THEN /\ missing' = {price_col}
            /\ Raise("task33", {price_col})
       ELSE /\ UNCHANGED missing
            /\ Finish("task33", FALSE, {price_col}, {}, {})
    /\ UNCHANGED <<file, columns, numeric, index, cols_req, new_index, new_row,
                   text_in, stderr, fc_vars>>

\* lines 369-375: sorting compares the values that are not NaN with each other;
\* with a text value among them it raises TypeError when a second value is a
\* number, which depends on the data
Task33 ==
    /\ pc = "task33"
    /\ IF Truthy(price_col)
       THEN IF Absent({price_col}) # {}
            THEN /\ missing' = {price_col}
                 /\ Raise("task33", {price_col})
            ELSE /\ UNCHANGED missing
                 /\ \/ Finish("task33", FALSE, {price_col}, {}, {})
                    \/ /\ price_col \in text_in
                       /\ nrows >= 2
                       /\ Raise("task33", {price_col})
       ELSE /\ UNCHANGED missing
            /\ Finish("task33", TRUE, {}, {}, {})
    /\ UNCHANGED <<file, columns, numeric, index, cols_req, new_index, new_row,
                   text_in, stderr, fc_vars>>

\* lines 377-383
Task34 ==
    /\ pc = "task34"
    /\ IF Truthy(city_col) /\ Truthy(price_col)
       THEN IF Absent({city_col, price_col}) # {}
            THEN /\ missing' = Absent({city_col, price_col})
                 /\ Raise("task34", {city_col, price_col})
            ELSE /\ UNCHANGED missing
                 /\ \/ Finish("task34", FALSE, {city_col, price_col}, {}, {})
                    \/ /\ price_col \in text_in
                       /\ Raise("task34", {city_col, price_col})
       ELSE /\ UNCHANGED missing
            /\ Finish("task34", TRUE, {}, {}, {})
    /\ UNCHANGED <<file, columns, numeric, index, cols_req, new_index, new_row,
                   text_in, stderr, fc_vars>>

\* lines 385-389
Task35 ==
    /\ pc = "task35"
    /\ Finish("task35", FALSE, {}, {}, {})
    /\ TableUnchanged

\* lines 391-395
Task36 ==
    /\ pc = "task36"
    /\ Finish("task36", FALSE, {}, {}, {})
    /\ TableUnchanged

\* lines 397-400
AllTasksCompleted ==
    /\ pc = "finish"
    /\ Finish("finish", FALSE, {}, {}, {})
    /\ TableUnchanged

Next ==
    \/ safe_read
    \/ Task1 \/ ResolveColumns \/ Coerce
    \/ Task2 \/ Task3 \/ Task4 \/ Task5 \/ Task6 \/ Task7 \/ Task8 \/ Task9
    \/ Task10 \/ Task11 \/ Task12 \/ Task13 \/ Task14 \/ Task15 \/ Task16
    \/ Task17 \/ Task18 \/ Task19 \/ Task20 \/ Task21 \/ Task22 \/ Task23
    \/ Task24 \/ Task25 \/ Task26 \/ Task27 \/ Task28 \/ Task29 \/ Task30
    \/ Task31 \/ Task32 \/ Task33 \/ Task34 \/ Task35 \/ Task36
    \/ AllTasksCompleted

Spec == Init /\ [][Next]_vars

(***************************************************************************)
(* find_col called on its own with one header row and one wanted name,     *)
(* and called a second time with the same arguments: lines 10-19.          *)
(***************************************************************************)
InitFind ==
    /\ fc_columns \in HeaderSeqs
    /\ fc_want \in Strings(MaxWant)
    /\ fc_results = <<>>
    /\ file = Unreadable
    /\ pc = "find_col"
    /\ columns = <<>>
    /\ numeric = {}
    /\ index = <<>>
    /\ cols_req = <<>>
    /\ new_index = -1
    /\ new_row = [c \in {} |-> "nan"]
    /\ text_in = {}
    /\ log = <<>>
    /\ missing = {}
    /\ stderr = ""

\* a find_col that stores the normalized headers back into df.columns
FindColCall_normalizing ==
    /\ pc = "find_col"
    /\ Len(fc_results) < 2
    /\ fc_results' = Append(fc_results, find_col(fc_columns, fc_want))
    /\ fc_columns' = [i \in DOMAIN fc_columns |-> lower(strip(fc_columns[i]))]
    /\ UNCHANGED <<fc_want, main_vars>>

FindColCall ==
    /\ pc = "find_col"
    /\ Len(fc_results) < 2
    /\ fc_results' = Append(fc_results, find_col(fc_columns, fc_want))
    /\ UNCHANGED <<fc_columns, fc_want, main_vars>>

NextFind == FindColCall

SpecFind == InitFind /\ [][NextFind]_vars

(***************************************************************************)
(* Properties of find_col (checked under SpecFind).                        *)
(***************************************************************************)
\* trimmed of leading and trailing whitespace and lower-cased
Norm(s) == lower(strip(s))

Min(S) == CHOOSE x \in S : \A y \in S : x <= y

\* positions of the headers that normalize exactly to the wanted name
ExactAt ==
    LET w == Norm(fc_want)
    IN  {k \in DOMAIN fc_columns : Norm(fc_columns[k]) = w}

\* positions of the headers whose normalized form contains the normalized wanted name
ContainAt ==
    LET w == Norm(fc_want)
    IN  {k \in DOMAIN fc_columns : str_in(w, Norm(fc_columns[k]))}

\* C1: when some header normalizes exactly to the wanted name, every call of
\* find_col returns the first such header of the row, in its original spelling,
\* also when an earlier header only contains the wanted name.
C1_ExactMatchFirst ==
    LET exact == ExactAt
    IN  exact # {} =>
            \A i \in DOMAIN fc_results : fc_results[i] = fc_columns[Min(exact)]

\* an exact match in un-normalized spelling is returned although an earlier
\* header contains the wanted name without equalling it
C1_Witness ==
    /\ fc_results # <<>>
    /\ \E k \in ExactAt :
          /\ fc_results[1] = fc_columns[k]
          /\ fc_columns[k] # Norm(fc_columns[k])
          /\ \E j \in ContainAt \ ExactAt : j < k

\* C2: when no header normalizes exactly to the wanted name, every call of
\* find_col returns the first header whose normalized form contains the
\* normalized wanted name, and None when there is none; in every case the result
\* is a header of the row or None.
C2_SubstringFallback ==
    LET exact == ExactAt
        contain == ContainAt
    IN  \A i \in DOMAIN fc_results :
            /\ fc_results[i] \in Range(fc_columns) \cup {None}
            /\ exact = {} =>
                  IF contain = {} THEN fc_results[i] = None
                  ELSE fc_results[i] = fc_columns[Min(contain)]

\* no exact match, two different headers contain the wanted name, the first is returned
C2_Witness ==
    /\ fc_results # <<>>
    /\ ExactAt = {}
    /\ \E j, k \in ContainAt :
          /\ j < k
          /\ fc_columns[j] # fc_columns[k]
          /\ fc_results[1] = fc_columns[j]

PriceSteps ==
    {"coerce", "task3", "task11", "task13", "task14", "task25", "task32", "task33",
     "task34"}

\* the price-dependent steps whose else branch prints a notice
PriceNoticeSteps == {"task11", "task13", "task32", "task33", "task34"}

\* the table was loaded and no header of it resolves for "price"
PriceMissing == file.readable /\ find_col(file.columns, price) = None

\* C4 as stated: with no header resolving for "price", every price-dependent
\* step that has run printed a skip notice and did not raise.
C4_EveryPriceStepPrintsNotice ==
    PriceMissing =>
        \A s \in PriceSteps :
            log[s].status # "-" => log[s].status = "ok" /\ log[s].notice

\* C4 amended: with no header resolving for "price", no price-dependent step
\* raises; Tasks 11, 13, 32, 33 and 34 print a skip notice, and the numeric
\* coercion, Task 3, Task 14 and Task 25 read only columns that resolved and
\* that the table has.
C4_PriceStepsSkipOrOmit ==
    PriceMissing =>
        \A s \in PriceSteps :
            /\ log[s].status \in {"-", "ok"}
            /\ None \notin log[s].used
            /\ log[s].used \subseteq Range(file.columns)
            /\ (s \in PriceNoticeSteps /\ log[s].status = "ok") =>
                  log[s].notice /\ log[s].used = {}

\* a run on a table without a price header has passed Task 34, and Task 14 has
\* printed the row without the price
C4_Witness ==
    /\ PriceMissing
    /\ log["task34"].status = "ok"
    /\ log["task14"].status = "ok"
    /\ ~log["task14"].notice
    /\ log["task14"].used # {}

\* C5: after a successful load main never ends in an unhandled exception,
\* whatever names find_col could not resolve.
C5_NeverAborts == file.readable => pc # "aborted"

\* C6: when the file cannot be loaded the run ends in SystemExit with the
\* diagnostic, no column is resolved and no task runs.
C6_FailedLoadExits ==
    ~file.readable =>
        /\ pc \in {"safe_read", "exit"}
        /\ pc = "exit" => stderr = "Failed to load CSV"
        /\ cols_req = <<>>
        /\ columns = <<>>
        /\ \A s \in Steps : log[s] = NotRun

\* the load has failed and the process has exited with the diagnostic
C6_Witness == ~file.readable /\ pc = "exit" /\ stderr # ""

\* rows and columns of the table as loaded; Tasks 8 to 24 do not change them
RowsLoaded == 0..(file.nrows - 1)
ColsLoaded == 0..(Len(file.columns) - 1)

\* the steps that address fixed rows or fixed column positions
FixedTargetSteps ==
    {"task8", "task9", "task10", "task14", "task17", "task18", "task19", "task20",
     "task21", "task22", "task23", "task24"}

C8_UsedColumnsPresent == missing = {}

\* C9: the row labels are pairwise distinct, and Task 31 never finds label 5
\* present when it renames label 3.
C9_IndexLabelsDistinct ==
    /\ \A i, j \in DOMAIN index : i # j => index[i] # index[j]
    /\ log["task31"].status # "warned"
    /\ log["task25"].status = "ok" => log["task25"].rows = {new_index}

\* Task 25 has added a row that is still there, and Task 31 has renamed label 3 to 5
C9_Witness ==
    /\ log["task31"].status = "ok"
    /\ ~log["task31"].notice
    /\ 5 \in labels
    /\ new_index \in labels
    /\ new_index > 7

\* C10: once Task 29 has run the table has neither the header resolved for
\* house_size nor the one resolved for state; Task 29 never drops the
\* house_size header; Task 30 always prints its notice, and a column
\* state_Changed is in the table only if the file had it.
C10_StateNeverRenamed ==
    /\ log["task29"].status = "ok" =>
          /\ get(house_size) \notin Range(columns)
          /\ get(state) \notin Range(columns)
    /\ get(house_size) \notin log["task29"].used
    /\ log["task30"].status = "ok" => log["task30"].notice
    /\ state_Changed \in Range(columns) => state_Changed \in Range(file.columns)

\* Task 28 has dropped the house_size header, Task 29 the state header, and
\* Task 30 has printed its notice
C10_Witness ==
    /\ log["task28"].used = {house_size}
    /\ log["task29"].used = {state}
    /\ log["task30"].status = "ok"
    /\ log["task30"].notice

====
